---- MODULE Spec2Model ----
(***************************************************************************)
(* Model of tools/anjay_codegen.py (Anjay Lite object skeleton generator). *)
(*                                                                         *)
(* Two kinds of behaviour are modelled:                                    *)
(*   - a command-line run of the script (the __main__ block), stepped at   *)
(*     its I/O boundaries: argument check, input read, object build,       *)
(*     --list, cardinality note, generation, output write;                 *)
(*   - a direct call of one of the module's functions                      *)
(*     (_sanitize_identifier, ResourceDef.kind_enum, ObjectDef.from_etree, *)
(*     generate_object_boilerplate) on inputs drawn from bounded sets.     *)
(*                                                                         *)
(* Strings that the code inspects character by character are sequences of  *)
(* one-character strings.  An optional integer (int or None) is a set with *)
(* at most one element.  The jinja2 templates are not part of the model:   *)
(* get_template(X).render(...) is the selection of X and yields text.      *)
(***************************************************************************)
EXTENDS Integers, Sequences, FiniteSets

VARIABLES
    pc,      \* position of the run / of the call
    argv,    \* what the command line specifies
    args,    \* the argparse namespace (args.instances_number is reassigned)
    doc,     \* the input document
    obj,     \* the ObjectDef built by ObjectDef.from_etree
    gen,     \* what generate_object_boilerplate did
    io,      \* reads, prints and writes of the run
    exit,    \* how the run or call ended
    str,     \* argument and results of _sanitize_identifier
    res      \* a ResourceDef and the result of its kind_enum

vars == <<pc, argv, args, doc, obj, gen, io, exit, str, res>>

----------------------------------------------------------------------------
(* Bounds of the model *)

\* longest name string given to _sanitize_identifier
MaxLen == 3
\* most <Item> nodes in a document's <Resources>
MaxItems == 2
\* most --resources-instances-number options on a command line
MaxOverrides == 2

----------------------------------------------------------------------------
(* Program constants *)

C_SINGLE_INST_TEMPLATE_FILENAME == "single_instance_template.c.jinja2"
C_MULTIPLE_INSTS_TEMPLATE_FILENAME == "multiple_instances_template.c.jinja2"
NoTemplate == "no template"

\* default of --instances-number
DefaultInstancesNumber == 1
\* args.instances_number not in range(1, 65535)
RangeFirst == 1
RangeStop == 65535
\* instance count of a multiple resource that has no override
DefaultResourceInstances == 2

None == {}
Some(n) == {n}
\* Python truth value of an optional integer
Truthy(x) == x # None /\ x # Some(0)

----------------------------------------------------------------------------
(* _sanitize_identifier *)

Letters == {"a", "b", "e", "f", "g", "h", "i", "n", "o", "r", "s", "t", "u",
            "v", "w", "x", "z", "A", "Z"}
Digits == {"0", "1", "2", "3", "4", "5", "6", "7", "8", "9"}

\* [^a-zA-Z0-9] is every character that IsAlnum rejects
IsAlnum(c) == c \in Letters \cup Digits

DIGIT_SPELLINGS(c) ==
    CASE c = "0" -> <<"z", "e", "r", "o">>
      [] c = "1" -> <<"o", "n", "e">>
      [] c = "2" -> <<"t", "w", "o">>
      [] c = "3" -> <<"t", "h", "r", "e", "e">>
      [] c = "4" -> <<"f", "o", "u", "r">>
      [] c = "5" -> <<"f", "i", "v", "e">>
      [] c = "6" -> <<"s", "i", "x">>
      [] c = "7" -> <<"s", "e", "v", "e", "n">>
      [] c = "8" -> <<"e", "i", "g", "h", "t">>
      [] c = "9" -> <<"n", "i", "n", "e">>
      [] OTHER   -> <<c>>

\* NONALPHANUM_REGEX.sub('_', n): each maximal run of non-alphanumerics -> '_'
RECURSIVE SubRuns(_, _)
SubRuns(n, inRun) ==
    IF n = <<>> THEN <<>>
    ELSE IF IsAlnum(Head(n)) THEN <<Head(n)>> \o SubRuns(Tail(n), FALSE)
    ELSE (IF inRun THEN <<>> ELSE <<"_">>) \o SubRuns(Tail(n), TRUE)

NONALPHANUM_REGEX_sub(n) == SubRuns(n, FALSE)

RECURSIVE LStrip(_)
LStrip(s) == IF s # <<>> /\ Head(s) = "_" THEN LStrip(Tail(s)) ELSE s

RECURSIVE RStrip(_)
RStrip(s) ==
    IF s # <<>> /\ s[Len(s)] = "_" THEN RStrip(SubSeq(s, 1, Len(s) - 1)) ELSE s

\* str.strip('_')
strip(s) == RStrip(LStrip(s))

Returned(v) == [raised |-> "", val |-> v]
Raised(e) == [raised |-> e, val |-> <<>>]

\* identifier[0] of an empty string raises IndexError
sanitize_identifier(n) ==
    LET identifier == strip(NONALPHANUM_REGEX_sub(n))
    IN  IF identifier = <<>> THEN Raised("IndexError")
        ELSE Returned(DIGIT_SPELLINGS(identifier[1]) \o Tail(identifier))

----------------------------------------------------------------------------
(* ResourceDef.kind_enum *)

OpR == <<"R">>
OpW == <<"W">>
OpRW == <<"R", "W">>
OpE == <<"E">>
OpBS_RW == <<"B", "S", "_", "R", "W">>

KindOperations == {OpR, OpW, OpRW, OpE, OpBS_RW}

\* 'E' in self.operations
Contains(s, c) == \E i \in 1..Len(s) : s[i] = c

\* kind_enum without the check of multiple executable resources
kind_enum_unchecked(r) ==
    IF r.operations \notin KindOperations THEN Raised("AssertionError")
    ELSE Returned(<<"ANJ_DM_RES_">> \o r.operations
                  \o (IF r.multiple THEN <<"M">> ELSE <<>>))

kind_enum(r) ==
    IF r.operations \notin KindOperations THEN Raised("AssertionError")
    ELSE IF r.multiple /\ Contains(r.operations, "E")
         THEN Raised("AssertionError")
    ELSE Returned(<<"ANJ_DM_RES_">> \o r.operations
                  \o (IF r.multiple THEN <<"M">> ELSE <<>>))

----------------------------------------------------------------------------
(* ResourceDef.from_etree, ObjectDef.parse_resources, ObjectDef.from_etree *)

\* {'Single': False, 'Multiple': True}[literal]
IsMultipleLiteral(l) == l \in {"Single", "Multiple"}
MultipleOf(l) == l = "Multiple"

\* ResourceDef.from_etree raises KeyError on any other literal
resource_parses(item) == IsMultipleLiteral(item.MultipleInstances)
ResourceDef_from_etree(item) ==
    [rid |-> item.ID, multiple |-> MultipleOf(item.MultipleInstances)]

\* one step of sorted(..., key=rid): r goes after every element whose rid is
\* not greater (sorted is stable)
RECURSIVE InsertByRid(_, _)
InsertByRid(sorted, r) ==
    IF sorted = <<>> THEN <<r>>
    ELSE IF Head(sorted).rid <= r.rid
         THEN <<Head(sorted)>> \o InsertByRid(Tail(sorted), r)
    ELSE <<r>> \o sorted

RECURSIVE SortedByRid(_)
SortedByRid(l) ==
    IF l = <<>> THEN <<>>
    ELSE InsertByRid(SortedByRid(SubSeq(l, 1, Len(l) - 1)), l[Len(l)])

\* parse_resources without the sort: the resources in document order
parse_resources_unsorted(d) ==
    [i \in 1..Len(d.items) |-> ResourceDef_from_etree(d.items[i])]

parse_resources(d) ==
    SortedByRid([i \in 1..Len(d.items) |-> ResourceDef_from_etree(d.items[i])])

\* [ r for r in resources if r.rid in resources_subset ]
RECURSIVE FilterSubset(_, _)
FilterSubset(resources, subset) ==
    IF resources = <<>> THEN <<>>
    ELSE (IF Head(resources).rid \in subset THEN <<Head(resources)>> ELSE <<>>)
         \o FilterSubset(Tail(resources), subset)

NoObj == [built |-> FALSE, multiple |-> FALSE, resources |-> <<>>]

\* the resources_subset parameter: None, or a collection of IDs
NoSubset == [given |-> FALSE, ids |-> {}]
Subset(ids) == [given |-> TRUE, ids |-> ids]

from_etree_raises(d) ==
    \/ \E i \in 1..Len(d.items) : ~resource_parses(d.items[i])
    \/ ~IsMultipleLiteral(d.MultipleInstances)

from_etree(d, resources_subset) ==
    LET parsed == parse_resources(d)
        resources == IF resources_subset.given
                     THEN FilterSubset(parsed, resources_subset.ids)
                     ELSE parsed
    IN  [built |-> TRUE,
         multiple |-> MultipleOf(d.MultipleInstances),
         resources |-> resources]

----------------------------------------------------------------------------
(* generate_object_boilerplate *)

EmptyDict == [r \in {} |-> 0]
Put(d, k, v) == [r \in DOMAIN d \cup {k} |-> IF r = k THEN v ELSE d[r]]

\* the overrides with the last count of a repeated ID kept, none refused
RECURSIVE override_dict_last_wins(_, _)
override_dict_last_wins(resource_instances, d) ==
    IF resource_instances = <<>> THEN [raised |-> "", dict |-> d]
    ELSE override_dict_last_wins(Tail(resource_instances),
                                 Put(d, Head(resource_instances)[1],
                                     Head(resource_instances)[2]))

\* lines 207-214: the overrides, in order; a repeated ID raises ValueError
RECURSIVE override_dict(_, _)
override_dict(resource_instances, d) ==
    IF resource_instances = <<>> THEN [raised |-> "", dict |-> d]
    ELSE LET rid == Head(resource_instances)[1]
             count == Head(resource_instances)[2]
         IN  IF rid \notin DOMAIN d
             THEN override_dict(Tail(resource_instances), Put(d, rid, count))
             ELSE [raised |-> "ValueError", dict |-> d]

\* lines 216-218: every multiple resource without an override gets 2
RECURSIVE default_dict(_, _)
default_dict(resources, d) ==
    IF resources = <<>> THEN d
    ELSE LET r == Head(resources)
         IN  default_dict(Tail(resources),
                          IF r.multiple /\ r.rid \notin DOMAIN d
                          THEN Put(d, r.rid, DefaultResourceInstances)
                          ELSE d)

\* the selection without its test of obj.multiple
select_template_by_count(multiple, instances_number) ==
    IF Truthy(instances_number) /\ instances_number = Some(1)
    THEN C_SINGLE_INST_TEMPLATE_FILENAME
    ELSE IF Truthy(instances_number) /\ \E n \in instances_number : n > 1
    THEN C_MULTIPLE_INSTS_TEMPLATE_FILENAME
    ELSE NoTemplate

\* the selection without its test of instances_number == 1
select_template_by_flag(multiple, instances_number) ==
    IF multiple = FALSE
    THEN C_SINGLE_INST_TEMPLATE_FILENAME
    ELSE IF Truthy(instances_number) /\ \E n \in instances_number : n > 1
    THEN C_MULTIPLE_INSTS_TEMPLATE_FILENAME
    ELSE NoTemplate

\* lines 230-233: the template rendered, or none (the function falls off its
\* end and returns None)
select_template(multiple, instances_number) ==
    IF multiple = FALSE \/ (Truthy(instances_number) /\ instances_number = Some(1))
    THEN C_SINGLE_INST_TEMPLATE_FILENAME
    ELSE IF Truthy(instances_number) /\ \E n \in instances_number : n > 1
    THEN C_MULTIPLE_INSTS_TEMPLATE_FILENAME
    ELSE NoTemplate

NotGenerated ==
    [called |-> FALSE, raised |-> "", template |-> NoTemplate, ret |-> "unset",
     instances_number |-> None, dynamic_object_instances |-> FALSE,
     resource_instances |-> EmptyDict]

generate_object_boilerplate(o, instances_number, resource_instances, dynamic_instances) ==
    LET overrides == override_dict(resource_instances, EmptyDict)
        template == select_template(o.multiple, instances_number)
    IN  IF overrides.raised # ""
        THEN [NotGenerated EXCEPT !.called = TRUE, !.raised = overrides.raised]
        ELSE [called |-> TRUE,
              raised |-> "",
              template |-> template,
              ret |-> IF template = NoTemplate THEN "None" ELSE "text",
              instances_number |-> instances_number,
              dynamic_object_instances |-> dynamic_instances,
              resource_instances |-> default_dict(o.resources, overrides.dict)]

----------------------------------------------------------------------------
(* Inputs *)

\* sequences over S of length lo..hi
SeqsOf(S, lo, hi) == UNION {[1..n -> S] : n \in lo..hi}

\* resource IDs of documents, allow-lists and overrides
Rids == {1, 3}
\* instance counts of -nri options
OverrideCounts == {3, 5}
\* values given to -ni: the first and the last of the range, and values on
\* both sides of it
InstancesNumbers == {0, 1, 65534, 65535, 70000}
\* values of the instances_number parameter in a direct call
CallInstancesNumbers == {None, Some(0), Some(1), Some(3), Some(65534)}

\* an absent or misspelt <MultipleInstances> reads as another literal
MultipleLiterals == {"Single", "Multiple", ""}
Items == [ID : Rids, MultipleInstances : MultipleLiterals]
Docs == [MultipleInstances : MultipleLiterals, items : SeqsOf(Items, 0, MaxItems)]
NoDoc == [MultipleInstances |-> "", items |-> <<>>]

OverrideLists == SeqsOf(Rids \X OverrideCounts, 0, MaxOverrides)

\* -r takes one or more IDs (nargs='+'); a direct call may pass an empty set
CliSubsets == {NoSubset} \cup {Subset(ids) : ids \in (SUBSET Rids) \ {{}}}
CallSubsets == {NoSubset} \cup {Subset(ids) : ids \in SUBSET Rids}

\* a command line; input "" is no -i option, instances_number None no -ni
\* option (other options, which the model leaves out, may still be there).
\* "-i -" reads stdin where "-i obj.xml" reads the file: the same step here
Argvs ==
    [empty : {FALSE},
     input : {"", "obj.xml"},
     instances_number : {None} \cup {Some(n) : n \in InstancesNumbers},
     dynamic_instances : BOOLEAN,
     list : BOOLEAN,
     resources : CliSubsets,
     resources_instances_number : OverrideLists]

\* len(sys.argv) == 1
EmptyArgv ==
    [empty |-> TRUE, input |-> "", instances_number |-> None,
     dynamic_instances |-> FALSE, list |-> FALSE, resources |-> NoSubset,
     resources_instances_number |-> <<>>]

NoArgs ==
    [input |-> "", instances_number |-> None, dynamic_instances |-> FALSE,
     list |-> FALSE, resources |-> NoSubset, resources_instances_number |-> <<>>]

NoIo ==
    [input_read |-> FALSE, notes |-> 0, listed |-> FALSE,
     output_opened |-> FALSE, written |-> "nothing"]

NameChars == {"a", "Z", "1", "9", "_", "-"}
Names == SeqsOf(NameChars, 0, MaxLen)
NoStr == [n |-> <<>>, calls |-> 0, first |-> Raised(""), second |-> Raised("")]

Operations == KindOperations \cup {<<>>, <<"R", "E">>, <<"W", "E">>, <<"X">>, <<"r">>}
Resources == [operations : Operations, multiple : BOOLEAN]
NoRes ==
    [r |-> [operations |-> <<>>, multiple |-> FALSE], called |-> FALSE,
     kind |-> Raised("")]

\* the objects a direct call of generate_object_boilerplate is given: those
\* from_etree builds
Objs == {from_etree(d, NoSubset) : d \in {x \in Docs : ~from_etree_raises(x)}}

----------------------------------------------------------------------------
(* Initial states *)

InitMain ==
    /\ pc = "main"
    /\ argv \in Argvs \cup {EmptyArgv}
    /\ args = NoArgs /\ doc = NoDoc /\ obj = NoObj
    /\ gen = NotGenerated /\ io = NoIo /\ exit = "running"
    /\ str = NoStr /\ res = NoRes

InitSanitize ==
    /\ pc = "call _sanitize_identifier"
    /\ str \in {[NoStr EXCEPT !.n = n] : n \in Names}
    /\ argv = EmptyArgv /\ args = NoArgs /\ doc = NoDoc /\ obj = NoObj
    /\ gen = NotGenerated /\ io = NoIo /\ exit = "running" /\ res = NoRes

InitKindEnum ==
    /\ pc = "call kind_enum"
    /\ res \in {[NoRes EXCEPT !.r = r] : r \in Resources}
    /\ argv = EmptyArgv /\ args = NoArgs /\ doc = NoDoc /\ obj = NoObj
    /\ gen = NotGenerated /\ io = NoIo /\ exit = "running" /\ str = NoStr

InitFromEtree ==
    /\ pc = "call from_etree"
    /\ doc \in Docs
    /\ args \in {[NoArgs EXCEPT !.resources = s] : s \in CallSubsets}
    /\ argv = EmptyArgv /\ obj = NoObj
    /\ gen = NotGenerated /\ io = NoIo /\ exit = "running"
    /\ str = NoStr /\ res = NoRes

InitGenerate ==
    /\ pc = "call generate_object_boilerplate"
    /\ obj \in Objs
    /\ args \in {[NoArgs EXCEPT !.instances_number = n,
                                !.dynamic_instances = d,
                                !.resources_instances_number = l] :
                    n \in CallInstancesNumbers, d \in BOOLEAN, l \in OverrideLists}
    /\ argv = EmptyArgv /\ doc = NoDoc
    /\ gen = NotGenerated /\ io = NoIo /\ exit = "running"
    /\ str = NoStr /\ res = NoRes

Init == InitMain \/ InitSanitize \/ InitKindEnum \/ InitFromEtree \/ InitGenerate

----------------------------------------------------------------------------
(* The command-line run: the __main__ block *)

\* range(1, 65536): the stop value taken for the last value
in_range_inclusive(n) == RangeFirst <= n /\ n <= RangeStop

\* args.instances_number not in range(1, 65535)
in_range(n) == RangeFirst <= n /\ n < RangeStop

\* parser.parse_args(): the namespace, with the default of -ni
parse_args(a) ==
    [input |-> a.input,
     instances_number |-> IF a.instances_number = None
                          THEN Some(DefaultInstancesNumber)
                          ELSE a.instances_number,
     dynamic_instances |-> a.dynamic_instances,
     list |-> a.list,
     resources |-> a.resources,
     resources_instances_number |-> a.resources_instances_number]

\* line 270: the condition of the usage error
usage_error(a) ==
    \/ a.input = ""
    \/ a.instances_number # None /\ \E n \in a.instances_number : ~in_range(n)

\* lines 265-272
ParseArgs ==
    /\ pc = "main"
    /\ IF argv.empty
       THEN /\ pc' = "exited" /\ exit' = "help" /\ args' = args
       ELSE /\ args' = parse_args(argv)
            /\ IF usage_error(args')
               THEN pc' = "exited" /\ exit' = "usage"
               ELSE pc' = "read" /\ exit' = exit
    /\ UNCHANGED <<argv, doc, obj, gen, io, str, res>>

\* lines 274-279: sys.stdin.read() or f.read(); the document is what is read
ReadInput ==
    /\ pc = "read"
    /\ \E d \in Docs : doc' = d
    /\ io' = [io EXCEPT !.input_read = TRUE]
    /\ pc' = "build"
    /\ UNCHANGED <<argv, args, obj, gen, exit, str, res>>

\* lines 281-282
BuildObject ==
    /\ pc = "build"
    /\ IF from_etree_raises(doc)
       THEN pc' = "exited" /\ exit' = "KeyError" /\ obj' = obj
       ELSE pc' = "built" /\ exit' = exit /\ obj' = from_etree(doc, args.resources)
    /\ UNCHANGED <<argv, args, doc, gen, io, str, res>>

\* lines 284-287
ListResources ==
    /\ pc = "built"
    /\ args.list
    /\ io' = [io EXCEPT !.listed = TRUE]
    /\ pc' = "exited" /\ exit' = "ok"
    /\ UNCHANGED <<argv, args, doc, obj, gen, str, res>>

\* line 289: the condition of the note
note_needed(instances_number, multiple) ==
    (\E n \in instances_number : n > 1) /\ ~multiple

\* lines 289-292
Degrade ==
    /\ pc = "built"
    /\ ~args.list
    /\ IF note_needed(args.instances_number, obj.multiple)
       THEN /\ io' = [io EXCEPT !.notes = @ + 1]
            /\ args' = [args EXCEPT !.instances_number = Some(1)]
       ELSE UNCHANGED <<io, args>>
    /\ pc' = "generate"
    /\ UNCHANGED <<argv, doc, obj, gen, exit, str, res>>

\* lines 294-301
Generate ==
    /\ pc = "generate"
    /\ gen' = generate_object_boilerplate(obj, args.instances_number,
                                          args.resources_instances_number,
                                          args.dynamic_instances)
    /\ IF gen'.raised # ""
       THEN pc' = "exited" /\ exit' = gen'.raised
       ELSE pc' = "write" /\ exit' = exit
    /\ UNCHANGED <<argv, args, doc, obj, io, str, res>>

\* lines 303-307: print(boilerplate) to stdout, or open the file and print
WriteOutput ==
    /\ pc = "write"
    /\ \E output \in {"-", "out.c"} :
          io' = [io EXCEPT !.output_opened = (output # "-"), !.written = gen.ret]
    /\ pc' = "exited" /\ exit' = "ok"
    /\ UNCHANGED <<argv, args, doc, obj, gen, str, res>>

----------------------------------------------------------------------------
(* Direct calls *)

CallSanitize ==
    /\ pc = "call _sanitize_identifier"
    /\ str' = [str EXCEPT !.calls = 1, !.first = sanitize_identifier(str.n)]
    /\ IF str'.first.raised # ""
       THEN pc' = "raised" /\ exit' = str'.first.raised
       ELSE pc' = "call _sanitize_identifier again" /\ exit' = exit
    /\ UNCHANGED <<argv, args, doc, obj, gen, io, res>>

\* the result is sanitized again
CallSanitizeAgain ==
    /\ pc = "call _sanitize_identifier again"
    /\ str' = [str EXCEPT !.calls = 2, !.second = sanitize_identifier(str.first.val)]
    /\ IF str'.second.raised # ""
       THEN pc' = "raised" /\ exit' = str'.second.raised
       ELSE pc' = "returned" /\ exit' = exit
    /\ UNCHANGED <<argv, args, doc, obj, gen, io, res>>

CallKindEnum ==
    /\ pc = "call kind_enum"
    /\ res' = [res EXCEPT !.called = TRUE, !.kind = kind_enum(res.r)]
    /\ IF res'.kind.raised # ""
       THEN pc' = "raised" /\ exit' = res'.kind.raised
       ELSE pc' = "returned" /\ exit' = exit
    /\ UNCHANGED <<argv, args, doc, obj, gen, io, str>>

CallFromEtree ==
    /\ pc = "call from_etree"
    /\ IF from_etree_raises(doc)
       THEN pc' = "raised" /\ exit' = "KeyError" /\ obj' = obj
       ELSE pc' = "returned" /\ exit' = exit /\ obj' = from_etree(doc, args.resources)
    /\ UNCHANGED <<argv, args, doc, gen, io, str, res>>

CallGenerate ==
    /\ pc = "call generate_object_boilerplate"
    /\ gen' = generate_object_boilerplate(obj, args.instances_number,
                                          args.resources_instances_number,
                                          args.dynamic_instances)
    /\ IF gen'.raised # ""
       THEN pc' = "raised" /\ exit' = gen'.raised
       ELSE pc' = "returned" /\ exit' = exit
    /\ UNCHANGED <<argv, args, doc, obj, io, str, res>>

Next ==
    \/ ParseArgs
    \/ ReadInput
    \/ BuildObject
    \/ ListResources
    \/ Degrade
    \/ Generate
    \/ WriteOutput
    \/ CallSanitize
    \/ CallSanitizeAgain
    \/ CallKindEnum
    \/ CallFromEtree
    \/ CallGenerate

Spec == Init /\ [][Next]_vars

----------------------------------------------------------------------------
(* Properties *)

SINGLE == C_SINGLE_INST_TEMPLATE_FILENAME
MULTIPLE == C_MULTIPLE_INSTS_TEMPLATE_FILENAME

\* generate_object_boilerplate was called and got past its override loop, so
\* it reached the template selection
Selected == gen.called /\ gen.raised = ""

\* the run is a command-line run with options (not a direct call)
MainRun == ~argv.empty

\* sys.exit(0) and the normal end give 0; sys.exit(1) and a traceback give 1
ExitCode == IF exit = "ok" THEN 0 ELSE 1

\* C1: whenever generate_object_boilerplate is given an object whose multiple
\* flag is false, whatever the instance count (absent, 0, 1, more) and the
\* dynamic-instances flag, it never selects the multiple-instances template,
\* and the template it selects (once past the override check) is the
\* single-instance one, which yields text.
C1_SingleWhenNotMultiple ==
    (gen.called /\ ~obj.multiple) =>
        /\ gen.template # MULTIPLE
        /\ gen.raised = "" => (gen.template = SINGLE /\ gen.ret = "text")

\* a direct call for a non-multiple object, with more than one instance
\* requested and the dynamic flag set, has selected the single template
C1_Witness ==
    /\ pc = "returned" /\ gen.called /\ ~obj.multiple
    /\ args.instances_number = Some(3) /\ args.dynamic_instances
    /\ gen.template = SINGLE

\* C2 as stated: for a multi-instance object with instance count 1 the single
\* template is selected and a note has been printed in that run.
C2_Original ==
    (MainRun /\ Selected /\ obj.multiple /\ args.instances_number = Some(1)) =>
        (gen.template = SINGLE /\ io.notes > 0)

\* C2 amended: for a multi-instance object with instance count 1 the single
\* template is selected and no note is printed in that run; a note is printed
\* only for an object that is not multi-instance, for which more than one
\* instance was requested.
C2_Amended ==
    /\ (Selected /\ obj.multiple /\ args.instances_number = Some(1)) =>
          (gen.template = SINGLE /\ gen.ret = "text" /\ io.notes = 0)
    /\ io.notes > 0 =>
          (obj.built /\ ~obj.multiple /\ \E n \in argv.instances_number : n > 1)

\* a run with -ni 1 for a multi-instance object has written single-instance
\* text and printed no note
C2_Witness ==
    /\ MainRun /\ pc = "exited" /\ exit = "ok" /\ obj.multiple
    /\ argv.instances_number = Some(1)
    /\ gen.template = SINGLE /\ io.written = "text" /\ io.notes = 0

\* C3 as stated: for a multi-instance object past the override check, the
\* multiple-instances template is selected whenever the instance count is
\* an integer greater than 1, and whenever the dynamic-instances flag is set,
\* whatever the instance count is.
C3_Original ==
    (Selected /\ obj.multiple) =>
        /\ (\E n \in gen.instances_number : n > 1) => gen.template = MULTIPLE
        /\ gen.dynamic_object_instances => gen.template = MULTIPLE

\* C4 as stated: generate_object_boilerplate either selects one template and
\* yields text, or fails; for a multi-instance object whose instance count is
\* neither 1 nor greater than 1 it fails; nothing but text is ever written.
C4_Original ==
    /\ gen.called => (gen.raised # "" \/ (gen.template # NoTemplate /\ gen.ret = "text"))
    /\ io.written \in {"nothing", "text"}

\* C5 as stated: kind_enum fails exactly when operations is outside
\* {R, W, RW, E, BS_RW}, whatever the multiple flag.
C5_Original ==
    res.called => (res.kind.raised # "" <=> res.r.operations \notin KindOperations)

\* C5 amended: kind_enum fails exactly when operations is outside
\* {R, W, RW, E, BS_RW} or operations is E and the multiple flag is set; in
\* every other case it returns ANJ_DM_RES_<operations>, with M appended for a
\* multiple resource.
C5_Amended ==
    res.called =>
        /\ res.kind.raised # "" <=>
              \/ res.r.operations \notin {OpR, OpW, OpRW, OpE, OpBS_RW}
              \/ res.r.operations = OpE /\ res.r.multiple
        /\ res.kind.raised = "" =>
              /\ Head(res.kind.val) = "ANJ_DM_RES_"
              /\ res.kind.val[Len(res.kind.val)] = "M" <=> res.r.multiple

\* kind_enum was called on a multiple executable resource and failed
C5_Witness ==
    /\ res.called /\ res.r.operations = OpE /\ res.r.multiple
    /\ res.kind.raised = "AssertionError"

\* the overrides name one resource ID twice with different counts
Conflicting(l) ==
    \E i, j \in 1..Len(l) : i < j /\ l[i][1] = l[j][1] /\ l[i][2] # l[j][2]

\* C6: with conflicting overrides, generate_object_boilerplate raises
\* ValueError before it selects a template, the run ends there with a
\* nonzero exit, and no run with such overrides opens or writes the output
\* (a run that ends earlier, with --list or an error, writes none either).
C6_ConflictWritesNothing ==
    Conflicting(args.resources_instances_number) =>
        /\ io.written = "nothing" /\ ~io.output_opened
        /\ gen.template = NoTemplate /\ gen.ret = "unset"
        /\ gen.called => (gen.raised = "ValueError" /\ exit = "ValueError"
                          /\ pc \in {"exited", "raised"} /\ ExitCode # 0)
        /\ pc \notin {"write", "returned"}

\* a run read its input, built the object and was stopped by the conflict of
\* "-nri 3 3 -nri 3 5"
C6_Witness ==
    /\ MainRun /\ pc = "exited" /\ exit = "ValueError"
    /\ args.resources_instances_number = << <<3, 3>>, <<3, 5>> >>
    /\ io.input_read /\ obj.built /\ gen.called /\ io.written = "nothing"

\* C7: a run given -ni outside 1..65534 ends as a usage error with a nonzero
\* exit as its first step: it never reads the input, builds no object, does
\* not call the generator and writes nothing.
C7_RangeCheckFirst ==
    (MainRun /\ \E n \in argv.instances_number : n < 1 \/ n > 65534) =>
        /\ ~io.input_read /\ doc = NoDoc /\ obj = NoObj
        /\ ~gen.called /\ io = NoIo
        /\ pc \in {"main", "exited"}
        /\ pc = "exited" => (exit = "usage" /\ ExitCode # 0)

\* a run with an input and -ni 70000 has ended as a usage error
C7_Witness ==
    /\ MainRun /\ pc = "exited" /\ exit = "usage"
    /\ argv.input = "obj.xml" /\ argv.instances_number = Some(70000)

\* how often the resource record v is in the sequence l
CountIn(l, v) == Cardinality({i \in 1..Len(l) : l[i] = v})

\* how often the document holds an item that reads as v and that the
\* allow-list lets through
CountWanted(d, subset, v) ==
    Cardinality({i \in 1..Len(d.items) :
                    /\ d.items[i].ID = v.rid
                    /\ (d.items[i].MultipleInstances = "Multiple") = v.multiple
                    /\ (subset.given => v.rid \in subset.ids)})

ResourceRecords == [rid : Rids, multiple : BOOLEAN]

\* C8: the resources of a built ObjectDef are in ascending ID order and are
\* exactly the document's resources that the allow-list lets through (all of
\* them without an allow-list), each as often as the document holds it; IDs
\* of the allow-list that match nothing are ignored, and from_etree fails
\* only on a literal it cannot read, never because of the allow-list.
C8_SortedFiltered ==
    /\ obj.built /\ doc # NoDoc =>
          /\ \A i \in 1..(Len(obj.resources) - 1) :
                obj.resources[i].rid <= obj.resources[i + 1].rid
          /\ \A v \in ResourceRecords :
                CountIn(obj.resources, v) = CountWanted(doc, args.resources, v)
          /\ \A i \in 1..Len(obj.resources) : obj.resources[i] \in ResourceRecords
    /\ exit = "KeyError" =>
          \/ doc.MultipleInstances \notin {"Single", "Multiple"}
          \/ \E i \in 1..Len(doc.items) :
                doc.items[i].MultipleInstances \notin {"Single", "Multiple"}

\* from_etree was given resources 3, 1 in that order and an allow-list that
\* names both, and returned them
C8_Witness ==
    /\ pc = "returned" /\ obj.built
    /\ Len(doc.items) = 2 /\ doc.items[1].ID = 3 /\ doc.items[2].ID = 1
    /\ args.resources = Subset({1, 3})
    /\ Len(obj.resources) = 2

\* C9 as stated: _sanitize_identifier returns a result for every name, and
\* sanitizing that result again returns the same result.
C9_Original ==
    /\ str.calls >= 1 => str.first.raised = ""
    /\ str.calls >= 2 => (str.second.raised = "" /\ str.second.val = str.first.val)

\* C10 as stated: a run without -ni, for a multi-instance object, generates
\* with instance count 2 and the multiple-instances template.
C10_Original ==
    (MainRun /\ argv.instances_number = None /\ Selected /\ obj.multiple) =>
        (gen.instances_number = Some(2) /\ gen.template = MULTIPLE)

====
